---- MODULE Spec2Model ----
(***************************************************************************)
(* Model of the simulated-discovery control loop of src/App.tsx: the scan  *)
(* session (toggleScan / startScanLoop / processWallet), the calibration   *)
(* gauge driven by the one-second interval, the boost pulse and the shared *)
(* connectivity handle.                                                    *)
(*                                                                         *)
(* Units.  The gauge is kept in tenths of a percent (100 % = 1000).        *)
(* Math.random() is a sample in tenths (0..9).  Balances are decimal       *)
(* strings, modelled as sequences of characters; amounts are counted in    *)
(* 1/10000 ether.                                                          *)
(***************************************************************************)
EXTENDS Integers, Sequences, FiniteSets, TLC

(* ---------------------------- bounds ----------------------------------- *)

\* wallets per round: the value of the `threads` slider (min 1, max 512)
Threads == 2
\* total number of wallets the model lets the rounds generate under Spec
MaxAttempts == 4
\* the same under SpecDeep, which draws its inputs from smaller sets
DeepAttempts == 6
\* number of round chains the model lets exist at the same time
MaxChains == 2
\* pending 12 s boost timeouts the model lets exist at the same time
MaxLuckTimers == 1
\* consecutive firings of the one-second interval taken as one Tick step
TickBurst == 75
\* the same pending boost timeouts under SpecPulse
DeepLuckTimers == 2
\* report fetches the model lets be unsettled at the same time
MaxAnalyses == 2
\* connectivity polls the model lets be unresolved at the same time
MaxPolls == 2
\* readings of Date.now() the model distinguishes: 0..MaxTime
MaxTime == 2
\* total number of wallets the model lets the rounds generate under SpecClock
LongAttempts == 18
\* watch-list refreshes the model lets be unsettled at the same time
MaxRefreshes == 2

(* ------------------------ program constants ---------------------------- *)

\* next >= 100 ? 100 : next  and  quantumCalibration >= 100   (tenths of %)
Ceiling == 1000
\* luckActive ? 4.5 : 0.8   (tenths)
BoostMultiplier == 45
NormalMultiplier == 8
\* [entry, ...prev].slice(0, 15)
OrdinaryCap == 15
\* Math.random() * (12.5 - 1.2) + 1.2   (1/10000 ether)
SyntheticLow == 12000
SyntheticHigh == 125000

\* samples of Math.random(), in tenths: 0 and 0.9
RandomSamples == {0, 9}

\* RICH_TARGETS: the addresses of the watch list (lower case in the source)
RICH_TARGETS == {"0xab5801", "0x742d35"}

\* addresses ethers.Wallet.createRandom() may return (checksummed, mixed case)
Addresses == {"0xAb5801", "0xCd77e2"}

\* amounts getBalance may return, in 1/10000 ether
LookupAmounts == {0, 5000}

\* NETWORKS[0].rpc, the endpoint the page polls
RpcUrl == "https://eth.llamarpc.com"

\* what a successful poll may read: block height, chain id, latency, gas price
PollResults ==
  [blockNumber : {"19000000"}, chainId : {"1"}, latency : {"120"},
   gasPrice : {"30.0"}]

\* the same, with two block heights, for polls that overlap
PollResultsWide ==
  [blockNumber : {"19000000", "19000001"}, chainId : {"1"}, latency : {"120"},
   gasPrice : {"30.0"}]

\* what auditWalletSetup may return: JSON.parse(response.text)
Reports == {"reportA", "reportB"}

\* how a report fetch ends: it never settles, it faults, or it returns a report
FetchOutcomes == {"hangs", "fault"} \cup Reports

(* ------------------------ strings and numbers -------------------------- *)

Digits == <<"0", "1", "2", "3", "4", "5", "6", "7", "8", "9">>

DigitOf(c) == (CHOOSE d \in 1..10 : Digits[d] = c) - 1

\* String.prototype.toLowerCase on the addresses of the model
ToLowerCase(a) ==
  CASE a = "0xAb5801" -> "0xab5801"
    [] a = "0xCd77e2" -> "0xcd77e2"
    [] OTHER -> a

RECURSIVE IntDigits(_)
IntDigits(n) ==
  IF n < 10 THEN <<Digits[n + 1]>>
  ELSE IntDigits(n \div 10) \o <<Digits[(n % 10) + 1]>>

\* the four fraction digits of an amount
FracDigits(v) ==
  LET f == v % 10000
  IN <<Digits[(f \div 1000) + 1], Digits[((f \div 100) % 10) + 1],
       Digits[((f \div 10) % 10) + 1], Digits[(f % 10) + 1]>>

RECURSIVE StripZeros(_)
StripZeros(s) ==
  IF Len(s) > 1 /\ s[Len(s)] = "0" THEN StripZeros(SubSeq(s, 1, Len(s) - 1))
  ELSE s

\* Number.prototype.toFixed(4)
ToFixed4(v) == IntDigits(v \div 10000) \o <<".">> \o FracDigits(v)

\* ethers.formatEther: no trailing zeros, at least one fraction digit
FormatEther(v) == IntDigits(v \div 10000) \o <<".">> \o StripZeros(FracDigits(v))

DotPos(s) ==
  IF \E i \in 1..Len(s) : s[i] = "."
  THEN CHOOSE i \in 1..Len(s) : s[i] = "." /\ \A j \in 1..(i - 1) : s[j] # "."
  ELSE Len(s) + 1

RECURSIVE DigitsValue(_, _)
DigitsValue(s, acc) ==
  IF s = <<>> THEN acc
  ELSE DigitsValue(Tail(s), acc * 10 + DigitOf(Head(s)))

RECURSIVE PadRight(_, _)
PadRight(s, n) == IF Len(s) >= n THEN SubSeq(s, 1, n) ELSE PadRight(s \o <<"0">>, n)

\* parseFloat of a decimal string, in 1/10000
ParseFloat(s) ==
  LET d == DotPos(s)
  IN DigitsValue(SubSeq(s, 1, d - 1), 0) * 10000
       + DigitsValue(PadRight(SubSeq(s, d + 1, Len(s)), 4), 0)

\* let balance = '0.00'
DefaultBalance == <<"0", ".", "0", "0">>

\* (Math.random() * (12.5 - 1.2) + 1.2).toFixed(4)
SyntheticBalance(r) ==
  ToFixed4(((r * (SyntheticHigh - SyntheticLow)) \div 10) + SyntheticLow)

(* ------------------------------ state ---------------------------------- *)

VARIABLES
  wallets,             \* useState<WalletEntry[]>: the ordinary list, newest first
  discovered,          \* useState<WalletEntry[]>: the discoveries list, newest first
  isScanning,          \* useState(false): the session flag the renders see
  isScanningRef,       \* useRef(false): the session flag the loop reads
  scanLoopRef,         \* useRef(null): the last next-round timer (0 = null,
                       \*   otherwise the chain that scheduled it)
  providerRef,         \* useRef(null): TRUE when a connectivity handle is set
  attemptsRef,         \* useRef(0): the attempt counter
  discoveryLockRef,    \* useRef(false): the one-shot lock
  quantumCalibration,  \* useState(0): the calibration gauge
  luckActive,          \* useState(false): the boost flag
  luckTimers,          \* pending setTimeout(() => setLuckActive(false), 12000)
  nodeStatus,          \* useState<NodeStatus>: the connectivity status
  chains,              \* the running startScanLoop chains, each with the values
                       \*   its closure captured
  scanStats,           \* useState({ attempts: 0, startTime: 0, wps: 0 })
  lastAttempts,        \* let lastAttempts = 0: the local of the stats effect
  probabilityData,     \* useState<SecurityReport | null>(null): the report
  analyses,            \* the unsettled runAnalysis calls, oldest first, each with
                       \*   the way its fetch is going to end
  pollsInFlight,       \* the number of checkNode calls awaiting their reads
  latestPoll,          \* history: how the most recently issued poll ended
                       \*   ("none", "pending", "ok" or "fault")
  now,                 \* the reading of Date.now()
  hvtBalances,         \* useState<Record<string, string>>({}): the watch-list
                       \*   balance snapshot
  refreshes            \* the unsettled syncHvtBalances calls, oldest first

vars == <<wallets, discovered, isScanning, isScanningRef, scanLoopRef, providerRef,
          attemptsRef, discoveryLockRef, quantumCalibration, luckActive,
          luckTimers, nodeStatus, chains, scanStats, lastAttempts,
          probabilityData, analyses, pollsInFlight, latestPoll, now,
          hvtBalances, refreshes>>

ChainIds == 1..MaxChains

\* a chain slot no startScanLoop closure occupies
IdleChain == [phase |-> "idle", calibration |-> 0, pending |-> <<>>]

\* WalletEntry (id, privateKey, mnemonic and network are not modelled);
\* timestamp: Date.now().  forcedHit and lookup are history fields: the local
\* forcedHit of processWallet and what the live lookup did for this wallet.
Entry(address, balance, forcedHit, lookup) ==
  [address |-> address, balance |-> balance, forcedHit |-> forcedHit,
   lookup |-> lookup, timestamp |-> now]

Init ==
  /\ wallets = <<>>
  /\ discovered = <<>>
  /\ isScanning = FALSE
  /\ isScanningRef = FALSE
  /\ scanLoopRef = 0
  /\ providerRef = FALSE
  /\ attemptsRef = 0
  /\ discoveryLockRef = FALSE
  /\ quantumCalibration = 0
  /\ luckActive = FALSE
  /\ luckTimers = 0
  /\ nodeStatus = [connected |-> FALSE, blockNumber |-> "null", latency |-> "null",
                   rpcUrl |-> RpcUrl, chainId |-> "null", gasPrice |-> "undefined"]
  /\ chains = [c \in ChainIds |-> IdleChain]
  /\ scanStats = [attempts |-> 0, startTime |-> 0, wps |-> 0]
  /\ lastAttempts = 0
  /\ probabilityData = "null"
  /\ analyses = <<>>
  /\ pollsInFlight = 0
  /\ latestPoll = "none"
  /\ now = 0
  /\ hvtBalances = {}
  /\ refreshes = <<>>

(* --------------------------- processWallet ----------------------------- *)

\* RICH_TARGETS.some(t => t.address.toLowerCase() === wallet.address.toLowerCase())
IsTargetMatch(address) ==
  \E t \in RICH_TARGETS : ToLowerCase(t) = ToLowerCase(address)

\* The state processWallet reads and writes, threaded through one batch:
\* lock, gauge, the two lists, the counter and the wallets left awaiting
\* their lookup.
Machine(lock, gauge, disc, wal, att, pend) ==
  [lock |-> lock, gauge |-> gauge, disc |-> disc, wal |-> wal, att |-> att,
   pend |-> pend]

\* Capped that keeps the last 15 records
CappedDropsNewest(s) ==
  IF Len(s) > OrdinaryCap THEN SubSeq(s, Len(s) - OrdinaryCap + 1, Len(s)) ELSE s

\* [entry, ...prev].slice(0, 15)
Capped(s) == IF Len(s) > OrdinaryCap THEN SubSeq(s, 1, OrdinaryCap) ELSE s

\* Route with && in place of || at line 178
RouteBothRequired(m, entry, isTargetMatch) ==
  IF ParseFloat(entry.balance) > 0 /\ isTargetMatch
  THEN [m EXCEPT !.disc = <<entry>> \o m.disc, !.gauge = 0, !.lock = FALSE,
                 !.att = m.att + 1]
  ELSE [m EXCEPT !.wal = Capped(<<entry>> \o m.wal), !.att = m.att + 1]

\* Route without line 183
RouteKeepsLock(m, entry, isTargetMatch) ==
  IF ParseFloat(entry.balance) > 0 \/ isTargetMatch
  THEN [m EXCEPT !.disc = <<entry>> \o m.disc, !.gauge = 0, !.att = m.att + 1]
  ELSE [m EXCEPT !.wal = Capped(<<entry>> \o m.wal), !.att = m.att + 1]

\* Route that counts only the records of the ordinary list
RouteSkipsCount(m, entry, isTargetMatch) ==
  IF ParseFloat(entry.balance) > 0 \/ isTargetMatch
  THEN [m EXCEPT !.disc = <<entry>> \o m.disc, !.gauge = 0, !.lock = FALSE]
  ELSE [m EXCEPT !.wal = Capped(<<entry>> \o m.wal), !.att = m.att + 1]

\* lines 178-187: route the entry, reset gauge and lock on a discovery,
\* count the attempt
Route(m, entry, isTargetMatch) ==
  IF ParseFloat(entry.balance) > 0 \/ isTargetMatch
  THEN [m EXCEPT !.disc = <<entry>> \o m.disc, !.gauge = 0, !.lock = FALSE,
                 !.att = m.att + 1]
  ELSE [m EXCEPT !.wal = Capped(<<entry>> \o m.wal), !.att = m.att + 1]

\* AfterLookup with a fault that puts the balance back to '0.00'
AfterLookupFaultResets(balance, outcome) ==
  IF outcome.fault THEN DefaultBalance
  ELSE LET realBal == FormatEther(outcome.amount)
       IN IF ParseFloat(realBal) > 0 THEN realBal ELSE balance

\* AfterLookup without the test of line 167
AfterLookupOverwrites(balance, outcome) ==
  IF outcome.fault THEN balance ELSE FormatEther(outcome.amount)

\* lines 164-168: the balance after the live lookup; a fault is swallowed
AfterLookup(balance, outcome) ==
  IF outcome.fault THEN balance
  ELSE LET realBal == FormatEther(outcome.amount)
       IN IF ParseFloat(realBal) > 0 THEN realBal ELSE balance

\* line 154: the forced-hit trigger, on the gauge value the closure captured
IsForcedHit(capturedCalibration, lock) ==
  capturedCalibration >= Ceiling /\ ~lock

\* lines 150-169 up to the await, then 171-188 when nothing is awaited:
\* processWallet from its call to its first suspension (or its end)
ProcessWalletSync(m, capturedCalibration, provider, w) ==
  LET forcedHit == IsForcedHit(capturedCalibration, m.lock)
      m1 == IF forcedHit THEN [m EXCEPT !.lock = TRUE] ELSE m
      balance == IF forcedHit THEN SyntheticBalance(w.rnd) ELSE DefaultBalance
      isTargetMatch == IsTargetMatch(w.address)
  IN IF provider /\ (isTargetMatch \/ forcedHit)
     THEN [m1 EXCEPT !.pend = Append(m1.pend,
                        [address |-> w.address, balance |-> balance,
                         forcedHit |-> forcedHit, isTargetMatch |-> isTargetMatch])]
     ELSE Route(m1, Entry(w.address, balance, forcedHit, "none"), isTargetMatch)

\* lines 165-188: processWallet from the resolution of its lookup to its end
ProcessWalletResume(m, p, outcome) ==
  Route(m,
        Entry(p.address, AfterLookup(p.balance, outcome), p.forcedHit,
              IF outcome.fault THEN "fault"
              ELSE IF outcome.amount = 0 THEN "zero" ELSE "positive"),
        p.isTargetMatch)

\* lines 199-205: the batch, each processWallet run in turn up to its await
RECURSIVE ProcessBatch(_, _, _, _)
ProcessBatch(m, capturedCalibration, provider, ws) ==
  IF ws = <<>> THEN m
  ELSE ProcessBatch(ProcessWalletSync(m, capturedCalibration, provider, Head(ws)),
                    capturedCalibration, provider, Tail(ws))

(* ------------------------------ actions -------------------------------- *)

\* the wallets ethers.Wallet.createRandom() and Math.random() give one batch
Batches == [1..Threads -> [address : Addresses, rnd : RandomSamples]]

RECURSIVE SumPending(_)
SumPending(cs) ==
  IF cs = {} THEN 0
  ELSE LET c == CHOOSE x \in cs : TRUE
       IN Len(chains[c].pending) + SumPending(cs \ {c})

\* wallets generated so far: processed to the end, or awaiting their lookup
Issued == attemptsRef + SumPending(ChainIds)

CurrentMachine ==
  Machine(discoveryLockRef, quantumCalibration, discovered, wallets, attemptsRef,
          <<>>)

Commit(m) ==
  /\ discoveryLockRef' = m.lock
  /\ quantumCalibration' = m.gauge
  /\ discovered' = m.disc
  /\ wallets' = m.wal
  /\ attemptsRef' = m.att

\* lines 206-209: after Promise.all, schedule the next round if still scanning
Settle(c, capturedCalibration, scanning) ==
  IF scanning
  THEN /\ chains' = [chains EXCEPT ![c] = [phase |-> "timer",
                        calibration |-> capturedCalibration, pending |-> <<>>]]
       /\ scanLoopRef' = c
  ELSE /\ chains' = [chains EXCEPT ![c] = IdleChain]
       /\ UNCHANGED scanLoopRef

\* lines 199-209: one round of the closure that captured capturedCalibration,
\* up to the point where it is suspended on a lookup or has scheduled its
\* successor
RunRound(c, capturedCalibration, ws) ==
  LET m == ProcessBatch(CurrentMachine, capturedCalibration, providerRef, ws)
  IN /\ Commit(m)
     /\ IF m.pend = <<>>
        THEN Settle(c, capturedCalibration, TRUE)
        ELSE /\ chains' = [chains EXCEPT ![c] = [phase |-> "round",
                              calibration |-> capturedCalibration,
                              pending |-> m.pend]]
             /\ UNCHANGED scanLoopRef

\* runAnalysis, lines 191-193, up to its await: the call of auditWalletSetup,
\* whose fetch is going to end as `fetch` says.  A fetch that never settles
\* leaves nothing behind.
RunAnalysis(fetch) ==
  /\ fetch # "hangs" => Len(analyses) < MaxAnalyses
  /\ analyses' = IF fetch = "hangs" THEN analyses ELSE Append(analyses, fetch)

\* toggleScan, lines 217-223: start a session; startScanLoop is the callback
\* of the current render, which closes over the current quantumCalibration.
\* The change of isScanning re-runs the stats effect (line 129).
ToggleScanStart(ws, limit, fetch) ==
  /\ ~isScanning
  /\ Issued + Threads <= limit
  /\ \E c \in ChainIds : chains[c].phase = "idle"
  /\ isScanning' = TRUE
  /\ isScanningRef' = TRUE
  /\ scanStats' = [scanStats EXCEPT !.startTime = now]
  /\ LET c == CHOOSE x \in ChainIds :
                 /\ chains[x].phase = "idle"
                 /\ \A y \in ChainIds : chains[y].phase = "idle" => x <= y
     IN RunRound(c, quantumCalibration, ws)
  /\ RunAnalysis(fetch)
  /\ lastAttempts' = 0
  /\ UNCHANGED <<providerRef, luckActive, luckTimers, nodeStatus,
                 probabilityData, pollsInFlight, latestPoll, now,
                 hvtBalances, refreshes>>

\* ClearTimeout that cancels nothing (line 216 left out)
ClearTimeoutForgotten(t) == chains

\* clearTimeout(scanLoopRef.current): cancels the timer if it is still pending
ClearTimeout(t) ==
  IF t # 0 /\ chains[t].phase = "timer"
  THEN [chains EXCEPT ![t] = IdleChain]
  ELSE chains

\* toggleScan, lines 213-216: stop the session
ToggleScanStop ==
  /\ isScanning
  /\ isScanning' = FALSE
  /\ isScanningRef' = FALSE
  /\ chains' = ClearTimeout(scanLoopRef)
  /\ lastAttempts' = 0
  /\ UNCHANGED <<wallets, discovered, scanLoopRef, providerRef, attemptsRef,
                 discoveryLockRef, quantumCalibration, luckActive, luckTimers,
                 nodeStatus, scanStats, probabilityData, analyses,
                 pollsInFlight, latestPoll, now,
                 hvtBalances, refreshes>>

\* the timer of line 208 fires: startScanLoop, lines 197-209
TimerFire(c, ws, limit) ==
  /\ chains[c].phase = "timer"
  /\ IF ~isScanningRef
     THEN /\ chains' = [chains EXCEPT ![c] = IdleChain]
          /\ UNCHANGED <<wallets, discovered, scanLoopRef, attemptsRef,
                         discoveryLockRef, quantumCalibration>>
     ELSE /\ Issued + Threads <= limit
          /\ RunRound(c, chains[c].calibration, ws)
  /\ UNCHANGED <<isScanning, isScanningRef, providerRef, luckActive, luckTimers,
                 nodeStatus, scanStats, lastAttempts, probabilityData, analyses,
                 pollsInFlight, latestPoll, now,
                 hvtBalances, refreshes>>

\* what getBalance may do: fault, or return an amount
LookupOutcomes ==
  {[fault |-> TRUE, amount |-> 0]} \cup [fault : {FALSE}, amount : LookupAmounts]

Remove(s, i) == SubSeq(s, 1, i - 1) \o SubSeq(s, i + 1, Len(s))

\* the lookup of the i-th suspended wallet of chain c resolves: processWallet
\* lines 165-188, then lines 206-209 when it was the last of its round
LookupResolve(c, i, outcome) ==
  /\ chains[c].phase = "round"
  /\ i \in 1..Len(chains[c].pending)
  /\ LET m == ProcessWalletResume(CurrentMachine, chains[c].pending[i], outcome)
         rest == Remove(chains[c].pending, i)
     IN /\ Commit(m)
        /\ IF rest = <<>>
           THEN Settle(c, chains[c].calibration, isScanningRef)
           ELSE /\ chains' = [chains EXCEPT ![c].pending = rest]
                /\ UNCHANGED scanLoopRef
  /\ UNCHANGED <<isScanning, isScanningRef, providerRef, luckActive, luckTimers,
                 nodeStatus, scanStats, lastAttempts, probabilityData, analyses,
                 pollsInFlight, latestPoll, now,
                 hvtBalances, refreshes>>

\* const multiplier = luckActive ? 4.5 : 0.8
Multiplier(luck) == IF luck THEN BoostMultiplier ELSE NormalMultiplier

\* Math.random() * multiplier, in tenths of a percent
Increment(r, luck) == (r * Multiplier(luck)) \div 10

\* CalibrationStep without the cap of line 141
CalibrationStepNoCap(prev, increment) == prev + increment

\* lines 139-142: the updater of the gauge
CalibrationStep(prev, increment) ==
  LET next == prev + increment
  IN IF next >= Ceiling THEN Ceiling ELSE next

\* lines 131-134: the statistics after n consecutive samples.  The first takes
\* delta = current - lastAttempts; the later ones, with no attempt made in
\* between, take delta = 0.
StatsSample(stats, n) ==
  [stats EXCEPT !.attempts = attemptsRef,
                !.wps = IF n = 1 THEN attemptsRef - lastAttempts ELSE 0]

\* The one-second interval of lines 130-144 fires n times in a row, each time
\* with the sample r of Math.random(): applying the updater of the gauge n
\* times with one increment is applying it once with n times the increment.
IntervalFire(r, n) ==
  /\ scanStats' = StatsSample(scanStats, n)
  /\ lastAttempts' = attemptsRef
  /\ IF isScanning
     THEN quantumCalibration' =
            CalibrationStep(quantumCalibration, n * Increment(r, luckActive))
     ELSE UNCHANGED quantumCalibration
  /\ UNCHANGED <<wallets, discovered, isScanning, isScanningRef, scanLoopRef,
                 providerRef, attemptsRef, discoveryLockRef, luckActive,
                 luckTimers, nodeStatus, chains, probabilityData, analyses,
                 pollsInFlight, latestPoll, now,
                 hvtBalances, refreshes>>

\* TickBurst firings of the interval
Tick(r) == IntervalFire(r, TickBurst)

\* triggerLuckPulse, lines 226-230 (its button is disabled unless isScanning).
\* A change of luckActive re-runs the stats effect (line 129).
TriggerLuckPulse(limit, fetch) ==
  /\ isScanning
  /\ luckTimers < limit
  /\ luckActive' = TRUE
  /\ RunAnalysis(fetch)
  /\ luckTimers' = luckTimers + 1
  /\ lastAttempts' = IF luckActive THEN lastAttempts ELSE 0
  /\ UNCHANGED <<wallets, discovered, isScanning, isScanningRef, scanLoopRef,
                 providerRef, attemptsRef, discoveryLockRef, quantumCalibration,
                 nodeStatus, chains, scanStats, probabilityData, pollsInFlight,
                 latestPoll, now,
                 hvtBalances, refreshes>>

\* the oldest pending timeout of line 229 fires (all have the same delay)
LuckTimeout ==
  /\ luckTimers > 0
  /\ luckActive' = FALSE
  /\ luckTimers' = luckTimers - 1
  /\ lastAttempts' = IF luckActive THEN 0 ELSE lastAttempts
  /\ UNCHANGED <<wallets, discovered, isScanning, isScanningRef, scanLoopRef,
                 providerRef, attemptsRef, discoveryLockRef, quantumCalibration,
                 nodeStatus, chains, scanStats, probabilityData, analyses,
                 pollsInFlight, latestPoll, now,
                 hvtBalances, refreshes>>

\* ReportAfter with a fault that clears the report
ReportAfterFaultClears(prev, outcome) ==
  IF outcome = "fault" THEN "null" ELSE outcome

\* lines 193-194: the report after a fetch has settled.  A fault rejects the
\* promise of runAnalysis before line 194, and nothing awaits that promise.
ReportAfter(prev, outcome) ==
  IF outcome = "fault" THEN prev ELSE outcome

\* runAnalysis, lines 193-194: the fetch of the i-th unsettled call settles
AnalysisSettle(i) ==
  /\ i \in 1..Len(analyses)
  /\ probabilityData' = ReportAfter(probabilityData, analyses[i])
  /\ analyses' = Remove(analyses, i)
  /\ UNCHANGED <<wallets, discovered, isScanning, isScanningRef, scanLoopRef,
                 providerRef, attemptsRef, discoveryLockRef, quantumCalibration,
                 luckActive, luckTimers, nodeStatus, chains, scanStats,
                 lastAttempts, pollsInFlight, latestPoll, now,
                 hvtBalances, refreshes>>

\* the keys of a Record<string, string>, kept as a set of entries
Keys(rec) == {e.address : e \in rec}

\* balances[target.address] = ethers.formatEther(bal)
SetKey(rec, address, balance) ==
  {e \in rec : e.address # address}
    \cup {[address |-> address, balance |-> balance]}

\* a syncHvtBalances call at its await: the local `balances`, the targets
\* whose lookup is unresolved, and whether Promise.all has rejected
NewRefresh == [balances |-> {}, left |-> RICH_TARGETS, failed |-> FALSE]

\* syncHvtBalances, lines 86-91, up to its await; `sync` says whether its
\* lookups are ever going to resolve.  Lookups that never resolve leave
\* nothing behind.
SyncHvtBalances(provider, sync) ==
  IF ~provider \/ sync = "hangs" THEN refreshes
  ELSE Append(refreshes, NewRefresh)

\* lines 91-92: one lookup of a refresh resolves or faults
RefreshAfter(r, t, outcome) ==
  [r EXCEPT !.left = @ \ {t},
            !.balances = IF outcome.fault THEN @
                         ELSE SetKey(@, t, FormatEther(outcome.amount)),
            !.failed = @ \/ outcome.fault]

\* SnapshotAfter that publishes whatever the refresh has collected
SnapshotAfterPartial(prev, r) ==
  IF r.left = {} THEN r.balances ELSE prev

\* lines 90-95: setHvtBalances(balances) runs when Promise.all resolves, that
\* is when every lookup has resolved; a rejection goes to the catch
SnapshotAfter(prev, r) ==
  IF r.left = {} /\ ~r.failed THEN r.balances ELSE prev

\* syncHvtBalances, lines 91-95: the lookup of target t of the i-th unsettled
\* refresh resolves or faults
HvtLookupSettle(i, t, outcome) ==
  /\ i \in 1..Len(refreshes)
  /\ t \in refreshes[i].left
  /\ LET r == RefreshAfter(refreshes[i], t, outcome)
     IN /\ hvtBalances' = SnapshotAfter(hvtBalances, r)
        /\ refreshes' = IF r.left = {} THEN Remove(refreshes, i)
                        ELSE [refreshes EXCEPT ![i] = r]
  /\ UNCHANGED <<wallets, discovered, isScanning, isScanningRef, scanLoopRef,
                 providerRef, attemptsRef, discoveryLockRef, quantumCalibration,
                 luckActive, luckTimers, nodeStatus, chains, scanStats,
                 lastAttempts, probabilityData, analyses, pollsInFlight,
                 latestPoll, now>>

\* lines 106-112: what a poll whose three reads succeeded leaves
StatusOk(res) ==
  [connected |-> TRUE, blockNumber |-> res.blockNumber,
   latency |-> res.latency, rpcUrl |-> RpcUrl,
   chainId |-> res.chainId, gasPrice |-> res.gasPrice]

\* StatusFault as a wholesale replacement of the status
StatusFaultWholesale(prev) ==
  [connected |-> FALSE, blockNumber |-> "null", latency |-> "null",
   rpcUrl |-> RpcUrl, chainId |-> "null", gasPrice |-> "undefined"]

\* line 116: prev => ({ ...prev, connected: false, latency: null })
StatusFault(prev) == [prev EXCEPT !.connected = FALSE, !.latency = "null"]

\* checkNode, lines 99-114, called and answered with no other handler in
\* between: the three reads of the poll succeeded
CheckNodeOk(res, sync) ==
  /\ sync # "hangs" => Len(refreshes) < MaxRefreshes
  /\ providerRef' = TRUE
  /\ nodeStatus' = StatusOk(res)
  /\ latestPoll' = "ok"
  /\ refreshes' = SyncHvtBalances(providerRef', sync)
  /\ UNCHANGED <<wallets, discovered, isScanning, isScanningRef, scanLoopRef,
                 attemptsRef, discoveryLockRef, quantumCalibration, luckActive,
                 luckTimers, chains, scanStats, lastAttempts, probabilityData,
                 analyses, pollsInFlight, now,
                 hvtBalances>>

\* checkNode, lines 99-105 and 115-117, called and answered with no other
\* handler in between: a read of the poll faulted
CheckNodeFault ==
  /\ nodeStatus' = StatusFault(nodeStatus)
  /\ latestPoll' = "fault"
  /\ UNCHANGED <<wallets, discovered, isScanning, isScanningRef, scanLoopRef,
                 providerRef, attemptsRef, discoveryLockRef, quantumCalibration,
                 luckActive, luckTimers, chains, scanStats, lastAttempts,
                 probabilityData, analyses, pollsInFlight, now,
                 hvtBalances, refreshes>>

\* checkNode, lines 99-105: a poll is issued (lines 122-123) and awaits its
\* three reads; up to there it writes nothing shared
CheckNodeIssue ==
  /\ pollsInFlight < MaxPolls
  /\ pollsInFlight' = pollsInFlight + 1
  /\ latestPoll' = "pending"
  /\ UNCHANGED <<wallets, discovered, isScanning, isScanningRef, scanLoopRef,
                 providerRef, attemptsRef, discoveryLockRef, quantumCalibration,
                 luckActive, luckTimers, nodeStatus, chains, scanStats,
                 lastAttempts, probabilityData, analyses, now,
                 hvtBalances, refreshes>>

\* an unresolved poll of the given age exists: the most recently issued one,
\* or one issued before it
PollPending(age) ==
  IF age = "latest" THEN latestPoll = "pending"
  ELSE pollsInFlight > (IF latestPoll = "pending" THEN 1 ELSE 0)

\* checkNode, lines 106-114: the reads of an unresolved poll succeed
CheckNodeResolveOk(age, res, sync) ==
  /\ sync # "hangs" => Len(refreshes) < MaxRefreshes
  /\ PollPending(age)
  /\ pollsInFlight' = pollsInFlight - 1
  /\ providerRef' = TRUE
  /\ nodeStatus' = StatusOk(res)
  /\ latestPoll' = IF age = "latest" THEN "ok" ELSE latestPoll
  /\ refreshes' = SyncHvtBalances(providerRef', sync)
  /\ UNCHANGED <<wallets, discovered, isScanning, isScanningRef, scanLoopRef,
                 attemptsRef, discoveryLockRef, quantumCalibration, luckActive,
                 luckTimers, chains, scanStats, lastAttempts, probabilityData,
                 analyses, now,
                 hvtBalances>>

\* checkNode, lines 115-117: a read of an unresolved poll faults
CheckNodeResolveFault(age) ==
  /\ PollPending(age)
  /\ pollsInFlight' = pollsInFlight - 1
  /\ nodeStatus' = StatusFault(nodeStatus)
  /\ latestPoll' = IF age = "latest" THEN "fault" ELSE latestPoll
  /\ UNCHANGED <<wallets, discovered, isScanning, isScanningRef, scanLoopRef,
                 providerRef, attemptsRef, discoveryLockRef, quantumCalibration,
                 luckActive, luckTimers, chains, scanStats, lastAttempts,
                 probabilityData, analyses, now,
                 hvtBalances, refreshes>>

\* time passes: the next reading of Date.now() is later
ClockAdvance ==
  /\ now < MaxTime
  /\ now' = now + 1
  /\ UNCHANGED <<wallets, discovered, isScanning, isScanningRef, scanLoopRef,
                 providerRef, attemptsRef, discoveryLockRef, quantumCalibration,
                 luckActive, luckTimers, nodeStatus, chains, scanStats,
                 lastAttempts, probabilityData, analyses, pollsInFlight,
                 latestPoll, hvtBalances, refreshes>>

Next ==
  \/ \E ws \in Batches : ToggleScanStart(ws, MaxAttempts, "hangs")
  \/ ToggleScanStop
  \/ \E c \in ChainIds, ws \in Batches : TimerFire(c, ws, MaxAttempts)
  \/ \E c \in ChainIds, i \in 1..Threads, o \in LookupOutcomes : LookupResolve(c, i, o)
  \/ \E r \in RandomSamples : Tick(r)
  \/ TriggerLuckPulse(MaxLuckTimers, "hangs")
  \/ LuckTimeout
  \/ \E res \in PollResults : CheckNodeOk(res, "hangs")
  \/ CheckNodeFault

\* The session, the gauge, the boost and polls that do not overlap; report
\* fetches and watch-list lookups that never settle; the reading of
\* Date.now() does not change.
Spec == Init /\ [][Next]_vars

\* The same handlers, followed over more rounds with fewer inputs: one
\* Math.random() sample, lookups that return zero, polls that succeed, no
\* boost pulse.
DeepBatches == [1..Threads -> [address : Addresses, rnd : {9}]]

NextDeep ==
  \/ \E ws \in DeepBatches : ToggleScanStart(ws, DeepAttempts, "hangs")
  \/ ToggleScanStop
  \/ \E c \in ChainIds, ws \in DeepBatches : TimerFire(c, ws, DeepAttempts)
  \/ \E c \in ChainIds, i \in 1..Threads :
        LookupResolve(c, i, [fault |-> FALSE, amount |-> 0])
  \/ Tick(9)
  \/ \E res \in PollResults : CheckNodeOk(res, "hangs")

SpecDeep == Init /\ [][NextDeep]_vars

\* batches of wallets none of which is a watch target
QuietBatches == [1..Threads -> [address : {"0xCd77e2"}, rnd : {9}]]

\* batches in which only the first wallet may be a watch target
ClockBatches ==
  {ws \in DeepBatches : \A i \in 2..Threads : ws[i].address = "0xCd77e2"}

\* The poller with polls that overlap, beside a session whose lookups
\* return zero.
NextPoll ==
  \/ CheckNodeIssue
  \/ \E age \in {"latest", "older"}, res \in PollResultsWide :
        CheckNodeResolveOk(age, res, "hangs")
  \/ \E age \in {"latest", "older"} : CheckNodeResolveFault(age)
  \/ \E ws \in DeepBatches : ToggleScanStart(ws, MaxAttempts, "hangs")
  \/ ToggleScanStop
  \/ \E c \in ChainIds, ws \in DeepBatches : TimerFire(c, ws, MaxAttempts)
  \/ \E c \in ChainIds, i \in 1..Threads :
        LookupResolve(c, i, [fault |-> FALSE, amount |-> 0])

SpecPoll == Init /\ [][NextPoll]_vars

\* The boost pulse, triggered again while it is active, and the report
\* fetches of toggleScan and triggerLuckPulse, beside a session of quiet
\* rounds.
NextPulse ==
  \/ \E ws \in QuietBatches, f \in FetchOutcomes :
        ToggleScanStart(ws, MaxAttempts, f)
  \/ ToggleScanStop
  \/ \E c \in ChainIds, ws \in QuietBatches : TimerFire(c, ws, MaxAttempts)
  \/ \E f \in FetchOutcomes : TriggerLuckPulse(DeepLuckTimers, f)
  \/ LuckTimeout
  \/ \E i \in 1..MaxAnalyses : AnalysisSettle(i)
  \/ Tick(9)

SpecPulse == Init /\ [][NextPulse]_vars

\* A session long enough to fill the ordinary list, with no connectivity
\* handle, while time passes.
NextClock ==
  \/ \E ws \in ClockBatches : ToggleScanStart(ws, LongAttempts, "hangs")
  \/ ToggleScanStop
  \/ \E c \in ChainIds, ws \in ClockBatches : TimerFire(c, ws, LongAttempts)
  \/ ClockAdvance

SpecClock == Init /\ [][NextClock]_vars

\* The statistics sampled second by second (with Math.random() = 0, which
\* leaves the gauge where it is), beside a session with no connectivity
\* handle and the boost pulse.
NextStats ==
  \/ \E ws \in DeepBatches : ToggleScanStart(ws, DeepAttempts, "hangs")
  \/ ToggleScanStop
  \/ \E c \in ChainIds, ws \in DeepBatches : TimerFire(c, ws, DeepAttempts)
  \/ IntervalFire(0, 1)
  \/ TriggerLuckPulse(MaxLuckTimers, "hangs")
  \/ LuckTimeout

SpecStats == Init /\ [][NextStats]_vars

\* The poller with the watch-list refreshes its successful polls start, whose
\* lookups resolve or fault in any order.
NextWatch ==
  \/ \E res \in PollResults : CheckNodeOk(res, "settles")
  \/ CheckNodeFault
  \/ \E i \in 1..MaxRefreshes, t \in RICH_TARGETS, o \in LookupOutcomes :
        HvtLookupSettle(i, t, o)

SpecWatch == Init /\ [][NextWatch]_vars

(* --------------------------- observations ------------------------------ *)

RECURSIVE CountForced(_)
CountForced(s) ==
  IF s = <<>> THEN 0
  ELSE (IF Head(s).forcedHit THEN 1 ELSE 0) + CountForced(Tail(s))

RECURSIVE ForcedPendingIn(_)
ForcedPendingIn(cs) ==
  IF cs = {} THEN 0
  ELSE LET c == CHOOSE x \in cs : TRUE
       IN CountForced(chains[c].pending) + ForcedPendingIn(cs \ {c})

\* forced-hit wallets classified but not yet recorded
ForcedPending == ForcedPendingIn(ChainIds)

\* wallets classified as forced hits so far
ForcedTotal == ForcedPending + CountForced(discovered) + CountForced(wallets)

\* rounds with a wallet still awaiting its lookup
RoundsInFlight == {c \in ChainIds : chains[c].phase = "round"}

\* case-insensitive equality with a watch-target address
MatchesWatchTarget(address) ==
  \E t \in RICH_TARGETS : ToLowerCase(address) = ToLowerCase(t)

Range(s) == {s[i] : i \in DOMAIN s}

(* ------------------------------ claims --------------------------------- *)

\* C1: while a session is active, if the gauge is at 100 and the lock is
\* clear, the next round the loop issues classifies a wallet as a forced hit.
C1_NextWalletForced ==
  [][(isScanningRef /\ quantumCalibration >= Ceiling /\ ~discoveryLockRef
        /\ Issued' > Issued)
      => ForcedTotal' > ForcedTotal]_vars

\* C2: a wallet is classified as a forced hit only in a step that starts with
\* the gauge at 100 and the lock clear.
C2_ForcedOnlyAtCeiling ==
  [][ForcedTotal' > ForcedTotal
      => (quantumCalibration >= Ceiling /\ ~discoveryLockRef)]_vars

\* C3: a record is in the discoveries list iff its balance parses to a value
\* above 0 or its address equals a watch target case-insensitively; otherwise
\* it is in the ordinary list; every record is in exactly one list.
C3_Routing ==
  /\ \A e \in Range(discovered) :
       ParseFloat(e.balance) > 0 \/ MatchesWatchTarget(e.address)
  /\ \A e \in Range(wallets) :
       ~(ParseFloat(e.balance) > 0 \/ MatchesWatchTarget(e.address))
  /\ attemptsRef <= OrdinaryCap => Len(discovered) + Len(wallets) = attemptsRef

C3_Witness ==
  /\ \E e \in Range(discovered) :
       ParseFloat(e.balance) = 0 /\ MatchesWatchTarget(e.address)
  /\ \E e \in Range(discovered) :
       ParseFloat(e.balance) > 0 /\ ~MatchesWatchTarget(e.address)
  /\ wallets # <<>>

\* C4: at most one forced-hit wallet is pending at any time.
C4_OneForcedPending == ForcedPending <= 1

\* C5: a step that leaves the session stopped issues no round and schedules
\* no next-round timer, and the stop itself cancels the timer scanLoopRef
\* refers to.
C5_StopCancels ==
  [][~isScanningRef'
      => /\ Issued' = Issued
         /\ \A c \in ChainIds :
              chains'[c].phase = "timer" => chains[c].phase = "timer"
         /\ (isScanningRef /\ scanLoopRef # 0)
              => chains'[scanLoopRef].phase # "timer"]_vars

C5_Witness ==
  /\ ~isScanningRef
  /\ scanLoopRef # 0
  /\ chains[scanLoopRef].phase = "idle"
  /\ RoundsInFlight # {}

\* C6: while the session is not active, nothing is appended to either list
\* and the attempt counter does not change.
C6_DiscardedWhenStopped ==
  [][(~isScanningRef /\ ~isScanningRef')
      => UNCHANGED <<discovered, wallets, attemptsRef>>]_vars

\* C7: at most one generation round is in flight at any time.
C7_OneRoundInFlight == Cardinality(RoundsInFlight) <= 1

\* C8: the gauge is in [0,100], and every step leaves it unchanged, raises it
\* (to at most 100) or resets it to 0.
C8_GaugeRange ==
  /\ quantumCalibration \in 0..Ceiling
  /\ [][/\ quantumCalibration' \in 0..Ceiling
        /\ (quantumCalibration' >= quantumCalibration \/ quantumCalibration' = 0)]_vars

C8_Witness ==
  /\ quantumCalibration = Ceiling
  /\ discovered # <<>>

\* C9: a step that records a discovery leaves the gauge at 0 and the lock
\* clear; a step that only appends to the ordinary list (no discovery, no
\* forced-hit classification) changes neither.
C9_DiscoveryResets ==
  [][/\ Len(discovered') > Len(discovered)
          => (quantumCalibration' = 0 /\ ~discoveryLockRef')
     /\ (attemptsRef' > attemptsRef /\ discovered' = discovered
           /\ ForcedTotal' = ForcedTotal)
          => UNCHANGED <<quantumCalibration, discoveryLockRef>>]_vars

C9_Witness ==
  /\ discovered # <<>>
  /\ discovered[1].forcedHit
  /\ discovered[1].lookup # "none"
  /\ wallets # <<>>
  /\ quantumCalibration = 0
  /\ ~discoveryLockRef

\* C10: a forced-hit wallet is never in the ordinary list, and in the
\* discoveries list it keeps its synthetic balance (in [1.2, 12.5]) when its
\* lookup was skipped, faulted or returned zero.
C10_ForcedAlwaysDiscovered ==
  /\ \A e \in Range(wallets) : ~e.forcedHit
  /\ \A e \in Range(discovered) :
       e.forcedHit =>
         IF e.lookup = "positive"
         THEN ParseFloat(e.balance) > 0
         ELSE /\ ParseFloat(e.balance) >= SyntheticLow
              /\ ParseFloat(e.balance) <= SyntheticHigh

C10_Witness ==
  \E e \in Range(discovered) :
    e.forcedHit /\ e.lookup = "zero" /\ ~MatchesWatchTarget(e.address)

\* C11: a forced-hit or watch-target wallet whose lookup returned zero or
\* faulted is recorded with a synthetic balance (in [1.2, 12.5]), and every
\* record of the discoveries list has a balance above 0.
C11_DiscoveriesPositive ==
  \A e \in Range(discovered) :
    /\ ((e.forcedHit \/ MatchesWatchTarget(e.address))
          /\ e.lookup \in {"zero", "fault"})
         => /\ ParseFloat(e.balance) >= SyntheticLow
            /\ ParseFloat(e.balance) <= SyntheticHigh
    /\ ParseFloat(e.balance) > 0

\* C12: in every step taken while no session is active, the gauge keeps its
\* value.
C12_GaugeFrozen ==
  [][(~isScanningRef /\ ~isScanningRef')
      => quantumCalibration' = quantumCalibration]_vars

\* C13: a step in which a poll faults leaves connected = false and
\* latency = null, keeps block height, chain id, endpoint URL and gas price,
\* and leaves the connectivity handle as it was.
C13_FaultKeeps ==
  [][(/\ pollsInFlight' < pollsInFlight
      /\ \/ (latestPoll = "pending" /\ latestPoll' = "fault")
         \/ ~nodeStatus'.connected)
      => /\ ~nodeStatus'.connected
         /\ nodeStatus'.latency = "null"
         /\ nodeStatus'.blockNumber = nodeStatus.blockNumber
         /\ nodeStatus'.chainId = nodeStatus.chainId
         /\ nodeStatus'.rpcUrl = nodeStatus.rpcUrl
         /\ nodeStatus'.gasPrice = nodeStatus.gasPrice
         /\ providerRef' = providerRef]_vars

C13_Witness ==
  /\ latestPoll = "fault"
  /\ ~nodeStatus.connected
  /\ nodeStatus.latency = "null"
  /\ nodeStatus.blockNumber = "19000001"
  /\ providerRef

\* C14: the boost flag is cleared only by the timeout of the latest
\* triggerLuckPulse call, so no timeout is pending when it is cleared.
C14_BoostLastsFromLatestPulse ==
  [][(luckActive /\ ~luckActive') => luckTimers' = 0]_vars

\* C15: a report fetch that faults leaves the displayed report as it was, one
\* that succeeds displays its report, and neither changes the session flag,
\* the gauge, the lock, the attempt counter or the lists; the step that starts
\* a session issues its first round however the fetch is going to end.
C15_ReportFetchIsolated ==
  [][/\ \A i \in 1..Len(analyses) :
          analyses' = Remove(analyses, i)
            => /\ probabilityData' =
                    (IF analyses[i] = "fault" THEN probabilityData
                     ELSE analyses[i])
               /\ UNCHANGED <<isScanning, isScanningRef, quantumCalibration,
                              discoveryLockRef, attemptsRef, wallets, discovered>>
     /\ Len(analyses') >= Len(analyses) => probabilityData' = probabilityData
     /\ (~isScanning /\ isScanning') => Issued' = Issued + Threads]_vars

C15_Witness ==
  /\ probabilityData = "reportA"
  /\ analyses = <<"fault">>
  /\ isScanning
  /\ quantumCalibration > 0
  /\ attemptsRef > 0

\* timestamps do not increase from head to tail
NewestFirst(s) ==
  \A i \in 1..Len(s), j \in 1..Len(s) : i < j => s[i].timestamp >= s[j].timestamp

\* new is old with k records placed at its head, cut to at most cap records
Prepended(old, new, k, cap) ==
  /\ Len(new) = (IF Len(old) + k > cap THEN cap ELSE Len(old) + k)
  /\ \A j \in (k + 1)..Len(new) : new[j] = old[j - k]

\* C16: the ordinary list never holds more than 15 records and both lists are
\* newest-first; a step places the new records at the head of the ordinary
\* list and drops the oldest beyond 15, and removes nothing from the
\* discoveries list.
C16_ListsNewestFirst ==
  /\ wallets = <<>> /\ discovered = <<>>
  /\ [][/\ Len(wallets') <= OrdinaryCap
        /\ NewestFirst(wallets')
        /\ NewestFirst(discovered')
        /\ \E k \in 0..Threads :
             /\ Prepended(wallets, wallets', k, OrdinaryCap)
             /\ Prepended(discovered, discovered', attemptsRef' - attemptsRef - k,
                          Len(discovered) + Threads)]_vars

C16_Witness ==
  /\ Len(wallets) = OrdinaryCap
  /\ attemptsRef - Len(discovered) > OrdinaryCap
  /\ wallets[1].timestamp > wallets[OrdinaryCap].timestamp
  /\ Len(discovered) >= 2
  /\ discovered[1].timestamp > discovered[Len(discovered)].timestamp

\* C17: the attempt counter never decreases, each step raises it by the
\* number of records the step appends to the two lists, and (while the
\* ordinary list has dropped nothing) it equals the length of the two lists.
C17_AttemptsCountRecords ==
  /\ attemptsRef = 0
  /\ [][/\ attemptsRef' >= attemptsRef
        /\ \E k \in 0..Threads :
             /\ Prepended(wallets, wallets', k, OrdinaryCap)
             /\ attemptsRef' - attemptsRef
                  = k + Len(discovered') - Len(discovered)
        /\ attemptsRef' <= OrdinaryCap
             => attemptsRef' = Len(discovered') + Len(wallets')]_vars

C17_Witness ==
  /\ attemptsRef = MaxAttempts
  /\ ~isScanning
  /\ Len(discovered) >= 2
  /\ discovered[1].lookup # "none"
  /\ discovered[2].lookup # "none"
  /\ discovered[1].address # discovered[2].address
  /\ wallets # <<>>

\* C18: every sample that changes the displayed statistics sets the displayed
\* attempts to the counter and the attempts-per-second value to the number
\* of attempts made since the previous sample.
C18_RateSinceLastSample ==
  [][(scanStats'.attempts # scanStats.attempts \/ scanStats'.wps # scanStats.wps)
      => /\ scanStats'.attempts = attemptsRef
         /\ scanStats'.wps = attemptsRef - scanStats.attempts]_vars

\* C19: when every issued poll has resolved, the status is the one the most
\* recently issued poll left: connected exactly when that poll succeeded.
C19_LatestPollWins ==
  (pollsInFlight = 0 /\ latestPoll \in {"ok", "fault"})
    => (nodeStatus.connected <=> latestPoll = "ok")

\* C20: whenever no forced-hit wallet is pending, the one-shot lock is clear.
C20_LockOnlyWhileForcedPending == ForcedPending = 0 => ~discoveryLockRef

C20_Witness ==
  /\ ~isScanning
  /\ ForcedPending = 0
  /\ ~discoveryLockRef
  /\ discovered # <<>>
  /\ discovered[1].forcedHit
  /\ discovered[1].lookup = "fault"
  /\ ~MatchesWatchTarget(discovered[1].address)

\* a lookup of some refresh settles in this step
LookupSettles ==
  /\ refreshes' # refreshes
  /\ Len(refreshes') <= Len(refreshes)

\* C21: the snapshot is empty or holds an entry for every watch target; a
\* step replaces it only with the balances of one refresh none of whose
\* lookups has faulted and whose last lookup resolves in that step; a step in
\* which a lookup faults, and every step of a refresh that has a faulted
\* lookup, leaves it unchanged; no lookup of a refresh changes the
\* connectivity status or the handle.
C21_SnapshotAllOrNothing ==
  /\ hvtBalances = {}
  /\ [][/\ Keys(hvtBalances') \in {{}, RICH_TARGETS}
        /\ Cardinality(hvtBalances') = Cardinality(Keys(hvtBalances'))
        /\ hvtBalances' # hvtBalances
             => \E i \in 1..Len(refreshes) :
                  /\ ~refreshes[i].failed
                  /\ Cardinality(refreshes[i].left) = 1
                  /\ refreshes[i].balances \subseteq hvtBalances'
                  /\ Len(refreshes') = Len(refreshes) - 1
        /\ (LookupSettles /\ \A i \in 1..Len(refreshes) : refreshes[i].failed)
             => hvtBalances' = hvtBalances
        /\ (LookupSettles
              /\ \E i \in 1..Len(refreshes') :
                   refreshes'[i].failed /\ refreshes'[i] \notin Range(refreshes))
             => hvtBalances' = hvtBalances
        /\ LookupSettles
             => UNCHANGED <<nodeStatus, providerRef, latestPoll>>]_vars

C21_Witness ==
  /\ Keys(hvtBalances) = RICH_TARGETS
  /\ \E e \in hvtBalances : ParseFloat(e.balance) > 0
  /\ \E i \in 1..Len(refreshes) :
       refreshes[i].failed /\ refreshes[i].left # {}
  /\ ~nodeStatus.connected

====
